---------------------------- MODULE Spec2Model ----------------------------
(***************************************************************************)
(* A model of the GraphQL user-account API: the Apollo context builder     *)
(* (src/utils/apollo-server.js:9-48) and the Query / Mutation resolvers    *)
(* (src/utils/apollo-server.js:59-270), over the User collection.          *)
(*                                                                         *)
(* Strings are sequences of one-character strings, so that .length, the    *)
(* regular expressions and toLowerCase are computed on the characters.     *)
(***************************************************************************)
EXTENDS Integers, Sequences, FiniteSets, TLC

VARIABLES
    store,    \* the User collection, in insertion (natural) order
    slots,    \* the signup requests in flight, one record per request slot
    ctx,      \* the outcome of the context function for the current request
    resp,     \* the response of the resolver the current request ran
    now,      \* the clock, in years
    alive     \* FALSE once the process has died on an unhandled rejection

vars == <<store, slots, ctx, resp, now, alive>>

---------------------------------------------------------------------------
(* Bounds *)

MaxSignups == 2     \* signup requests in flight at once
MaxTime    == 2     \* the clock stops here

---------------------------------------------------------------------------
(* Characters and strings *)

LowerSeq == <<"a","b","c","d","e","f","g","h","i","j","k","l","m",
              "n","o","p","q","r","s","t","u","v","w","x","y","z">>
UpperSeq == <<"A","B","C","D","E","F","G","H","I","J","K","L","M",
              "N","O","P","Q","R","S","T","U","V","W","X","Y","Z">>
DigitSeq == <<"0","1","2","3","4","5","6","7","8","9">>

Range(s) == {s[i] : i \in DOMAIN s}

Lower == Range(LowerSeq)
Upper == Range(UpperSeq)
Digit == Range(DigitSeq)

\* \w
WordChar == Lower \cup Upper \cup Digit \cup {"_"}

\* \s (the members that matter for one-byte characters)
Whitespace == {" ", "\t", "\n", "\r", "\f"}

\* the characters . does not match
LineTerminator == {"\n", "\r"}

\* the JavaScript values null / undefined where a string is expected; it is
\* not a string of characters, so it equals no string
Null == <<"<null>">>

\* !x for a string-or-null x
Falsy(x) == x = Null \/ x = <<>>

Rep(c, n) == [i \in 1..n |-> c]

\* String.prototype.toLowerCase, on one character and on a string
ToLowerChar(c) ==
    IF c \in Upper
    THEN LowerSeq[CHOOSE i \in DOMAIN UpperSeq : UpperSeq[i] = c]
    ELSE c

ToLowerCase(s) == [i \in DOMAIN s |-> ToLowerChar(s[i])]

\* the pieces of s between the occurrences of sep (String.prototype.split)
RECURSIVE Split(_, _)
Split(s, sep) ==
    IF \A i \in DOMAIN s : s[i] # sep
    THEN <<s>>
    ELSE LET k == CHOOSE i \in DOMAIN s :
                      s[i] = sep /\ \A j \in 1..(i - 1) : s[j] # sep
         IN  <<SubSeq(s, 1, k - 1)>> \o Split(SubSeq(s, k + 1, Len(s)), sep)

---------------------------------------------------------------------------
(* The regular expressions of signup *)

\* [^<>()[\]\\.,;:\s@"]
EmailAtomExcluded ==
    {"<", ">", "(", ")", "[", "]", "\\", ".", ",", ";", ":", "@", "\""}
        \cup Whitespace

\* [^<>()[\]\\.,;:\s@"]+(\.[^<>()[\]\\.,;:\s@"]+)*
EmailDotAtom(l) ==
    \A k \in DOMAIN Split(l, ".") :
        LET atom == Split(l, ".")[k]
        IN  /\ Len(atom) >= 1
            /\ \A i \in DOMAIN atom : atom[i] \notin EmailAtomExcluded

\* ".+"
EmailQuoted(l) ==
    /\ Len(l) >= 3
    /\ l[1] = "\""
    /\ l[Len(l)] = "\""
    /\ \A i \in 2..(Len(l) - 1) : l[i] \notin LineTerminator

\* \[[0-9]{1,3}\.[0-9]{1,3}\.[0-9]{1,3}\.[0-9]{1,3}\]
EmailIpLiteral(d) ==
    /\ Len(d) >= 2
    /\ d[1] = "["
    /\ d[Len(d)] = "]"
    /\ LET parts == Split(SubSeq(d, 2, Len(d) - 1), ".")
       IN  /\ Len(parts) = 4
           /\ \A k \in DOMAIN parts :
                  /\ Len(parts[k]) \in 1..3
                  /\ \A i \in DOMAIN parts[k] : parts[k][i] \in Digit

\* ([a-zA-Z\-0-9]+\.)+[a-zA-Z]{2,}
EmailHostname(d) ==
    LET labels == Split(d, ".")
        n      == Len(labels)
    IN  /\ n >= 2
        /\ \A k \in 1..(n - 1) :
               /\ Len(labels[k]) >= 1
               /\ \A i \in DOMAIN labels[k] :
                      labels[k][i] \in Lower \cup Upper \cup Digit \cup {"-"}
        /\ Len(labels[n]) >= 2
        /\ \A i \in DOMAIN labels[n] : labels[n][i] \in Lower \cup Upper

\* emailRegex.test(s): ^(local)@(domain)$ matches when some @ of s splits it
\* into a local part and a domain that both match
EmailRegexTest(s) ==
    \E k \in DOMAIN s :
        /\ s[k] = "@"
        /\ LET l == SubSeq(s, 1, k - 1)
               d == SubSeq(s, k + 1, Len(s))
           IN  /\ EmailDotAtom(l) \/ EmailQuoted(l)
               /\ EmailIpLiteral(d) \/ EmailHostname(d)

\* usernameRegex.test(u): /^(?!.*\.\.)(?!.*\.$)[^\W][\w.]{0,29}$/
UsernameRegexTest(u) ==
    /\ Len(u) \in 1..30
    /\ u[1] \in WordChar
    /\ \A i \in 2..Len(u) : u[i] \in WordChar \cup {"."}
    /\ \A i \in 1..(Len(u) - 1) : ~(u[i] = "." /\ u[i + 1] = ".")
    /\ u[Len(u)] # "."

\* frontEndPages without its last entry
frontEndPages_WithoutPost ==
    { <<"f","o","r","g","o","t","-","p","a","s","s","w","o","r","d">>,
      <<"r","e","s","e","t","-","p","a","s","s","w","o","r","d">>,
      <<"e","x","p","l","o","r","e">>,
      <<"p","e","o","p","l","e">>,
      <<"n","o","t","i","f","i","c","a","t","i","o","n","s">> }

frontEndPages ==
    { <<"f","o","r","g","o","t","-","p","a","s","s","w","o","r","d">>,
      <<"r","e","s","e","t","-","p","a","s","s","w","o","r","d">>,
      <<"e","x","p","l","o","r","e">>,
      <<"p","e","o","p","l","e">>,
      <<"n","o","t","i","f","i","c","a","t","i","o","n","s">>,
      <<"p","o","s","t">> }

---------------------------------------------------------------------------
(* Token Codec: generateToken (utils/generate-token) and jwt.verify *)

SECRET == "process.env.SECRET"

\* '1y', in years
AUTH_TOKEN_EXPIRY == 1

\* the signature of a payload under a key
Sign(payload, key) == [key |-> key, of |-> payload]

\* generateToken(user, secret, expiresIn) at time t
generateToken(user, secret, expiresIn, t) ==
    LET payload == [id |-> user.id, email |-> user.email, exp |-> t + expiresIn]
    IN  [payload |-> payload, sig |-> Sign(payload, secret)]

\* jwt.verify(token, secret) at time t returns token.payload when this
\* holds and throws otherwise
JwtVerifies(token, secret, t) ==
    /\ DOMAIN token = {"payload", "sig"}
    /\ token.sig = Sign(token.payload, secret)
    /\ t < token.payload.exp

---------------------------------------------------------------------------
(* Credential Verifier: bcryptjs *)

\* the one-way hash the User model stores in place of the password
Hash(password) == <<"$2a$10$">> \o password

\* bcrypt.compare(s, hash) rejects when s is not a string
BcryptIllegalArguments(s) == s = Null

\* bcrypt.compare(s, hash) for a string s
BcryptCompare(s, hash) == hash = Hash(s)

---------------------------------------------------------------------------
(* User Store: the User model and its collection *)

\* the result of a query that matches no document
NullDoc == [null |-> TRUE]

\* new documents get the next identifier; identifiers are strings
NewId(st) == <<DigitSeq[Len(st) + 2]>>

\* Model.findOne(query): the first document, in natural order, among those
\* that match the query
FindOne(st, matching) ==
    IF \E i \in DOMAIN st : st[i] \in matching
    THEN st[CHOOSE i \in DOMAIN st :
                st[i] \in matching /\ \A j \in 1..(i - 1) : st[j] \notin matching]
    ELSE NullDoc

\* DuplicateKey with a unique index on email only
DuplicateKey_EmailOnly(st, doc) ==
    \E i \in DOMAIN st : st[i].email = doc.email

\* the unique indexes on email and on username reject this document
DuplicateKey(st, doc) ==
    \E i \in DOMAIN st :
        st[i].email = doc.email \/ st[i].username = doc.username

\* the rejection of save() by a unique index
E11000 == "E11000 duplicate key error"

\* the document save() inserts: a new identifier, the password hashed
SavedDoc(st, doc) ==
    [id       |-> NewId(st),
     fullName |-> doc.fullName,
     email    |-> doc.email,
     username |-> doc.username,
     password |-> Hash(doc.password),
     isOnline |-> FALSE]

---------------------------------------------------------------------------
(* Mutation.signup *)

NoInput  == [none |-> TRUE]
NoResult == [none |-> TRUE]
IdleSlot == [pc |-> "idle", input |-> NoInput, result |-> NoResult]

Slots == 1..MaxSignups

\* .or([{ email }, { username }])
SignupQuery(input, u) == u.email = input.email \/ u.username = input.username

Ok == "ok"

\* lines 208-255: the message of the Error the validation throws, Ok when
\* it throws none
SignupValidationError(input) ==
    LET fullName == input.fullName
        email    == input.email
        username == input.username
        password == input.password
    IN  IF Falsy(fullName) \/ Falsy(email) \/ Falsy(username) \/ Falsy(password)
        THEN "All fields are required."
        ELSE IF Len(fullName) > 40
        THEN "Full name no more than 40 characters."
        ELSE IF Len(fullName) < 4
        THEN "Full name min 4 characters."
        ELSE IF ~EmailRegexTest(ToLowerCase(email))
        THEN "Enter a valid email address."
        ELSE IF ~UsernameRegexTest(username)
        THEN "Usernames can only use letters, numbers, underscores and periods."
        ELSE IF Len(username) > 20
        THEN "Username no more than 50 characters."
        ELSE IF Len(username) < 3
        THEN "Username min 3 characters."
        ELSE IF username \in frontEndPages
        THEN "This username isn't available. Please try another."
        ELSE IF Len(password) < 6
        THEN "Password min 6 characters."
        ELSE Ok

\* SignupError with the validation moved in front of the uniqueness check
SignupError_ValidationFirst(user, input) ==
    IF SignupValidationError(input) # Ok
    THEN SignupValidationError(input)
    ELSE IF user # NullDoc
    THEN IF user.email = input.email
         THEN "User with given email already exists."
         ELSE "User with given username already exists."
    ELSE Ok

\* lines 203-255: the message of the Error signup throws before it creates
\* the user, Ok when it throws none; user is the result of the lookup
SignupError(user, input) ==
    IF user # NullDoc
    THEN IF user.email = input.email
         THEN "User with given email already exists."
         ELSE "User with given username already exists."
    ELSE SignupValidationError(input)

\* NewUser with the full name and the username exchanged
NewUser_NamesSwapped(input) ==
    [fullName |-> input.username,
     email    |-> input.email,
     username |-> input.fullName,
     password |-> input.password]

\* new User({ fullName, email, username, password })
NewUser(input) ==
    [fullName |-> input.fullName,
     email    |-> input.email,
     username |-> input.username,
     password |-> input.password]

\* a signup request arrives and its resolver is invoked
SignupStart(r, input) ==
    /\ alive
    /\ slots[r].pc = "idle"
    /\ slots' = [slots EXCEPT ![r] = [pc |-> "lookup", input |-> input,
                                      result |-> NoResult]]
    /\ UNCHANGED <<store, ctx, resp, now, alive>>

\* lines 202-255: the lookup resolves and the validation runs up to the
\* call of save()
SignupCheck(r) ==
    /\ alive
    /\ slots[r].pc = "lookup"
    /\ LET input == slots[r].input
           user  == FindOne(store,
                        {u \in Range(store) : SignupQuery(input, u)})
           error == SignupError(user, input)
       IN  slots' = [slots EXCEPT ![r] =
                        IF error = Ok
                        THEN [@ EXCEPT !.pc = "save"]
                        ELSE [@ EXCEPT !.pc = "done",
                                       !.result = [err |-> error]]]
    /\ UNCHANGED <<store, ctx, resp, now, alive>>

\* lines 257-266: save() settles; a rejection propagates to the caller,
\* otherwise the token is minted for the saved document
SignupSave(r) ==
    /\ alive
    /\ slots[r].pc = "save"
    /\ LET doc == NewUser(slots[r].input)
       IN  IF DuplicateKey(store, doc)
           THEN /\ slots' = [slots EXCEPT ![r] =
                                [@ EXCEPT !.pc = "done",
                                          !.result = [err |-> E11000]]]
                /\ UNCHANGED store
           ELSE LET newUser == SavedDoc(store, doc)
                IN  /\ store' = Append(store, newUser)
                    /\ slots' = [slots EXCEPT ![r] =
                                    [@ EXCEPT !.pc = "done",
                                              !.result = [token |->
                                                  generateToken(newUser, SECRET,
                                                      AUTH_TOKEN_EXPIRY, now)]]]
    /\ UNCHANGED <<ctx, resp, now, alive>>

\* the response has been sent and the request is over
SignupRespond(r) ==
    /\ alive
    /\ slots[r].pc = "done"
    /\ slots' = [slots EXCEPT ![r] = IdleSlot]
    /\ UNCHANGED <<store, ctx, resp, now, alive>>

---------------------------------------------------------------------------
(* Context Builder: createApolloServer.context and checkAuthorization *)

\* the JavaScript value undefined where an object is expected
Undefined == [undefined |-> TRUE]

\* a header that carries the string s
StrHeader(s) == [str |-> s]

\* the authorization header of a client without a credential: 'null'
HeaderNull == StrHeader(<<"n","u","l","l">>)

NoCtx  == [status |-> "none"]
NoResp == [op |-> "none"]

\* Object.assign({ authUser }, models); the model handles are left out
Context(authUser) == [authUser |-> authUser]

\* lines 9-19 and 32-46: the context function runs for a request with this
\* authorization header and, on a subscription transport, this connection.
\* jwt.verify throws inside the async executor of checkAuthorization, so the
\* promise the context function awaits never settles: the request hangs, and
\* the unhandled rejection ends the process on runtimes that treat it so.
BuildContext(header, connection) ==
    /\ alive
    /\ ctx.status \in {"none", "hung"}
    /\ resp' = NoResp
    /\ IF connection # Undefined
       THEN /\ ctx' = [status |-> "built", header |-> header,
                       persistent |-> TRUE, context |-> connection.context]
            /\ UNCHANGED alive
       ELSE IF header = HeaderNull
       THEN /\ ctx' = [status |-> "built", header |-> header,
                       persistent |-> FALSE, context |-> Context(Undefined)]
            /\ UNCHANGED alive
       ELSE IF JwtVerifies(header, SECRET, now)
       THEN /\ ctx' = IF header.payload # Undefined
                      THEN [status |-> "built", header |-> header,
                            persistent |-> FALSE,
                            context |-> Context(header.payload)]
                      ELSE [status |-> "rejected", header |-> header,
                            persistent |-> FALSE,
                            error |-> "Couldn't authenticate user"]
            /\ UNCHANGED alive
       ELSE /\ ctx' = [status |-> "hung", header |-> header,
                       persistent |-> FALSE]
            /\ alive' \in BOOLEAN
    /\ UNCHANGED <<store, slots, now>>

---------------------------------------------------------------------------
(* Query.getAuthUser *)

\* OnlineUpdate that clears the flag
OnlineUpdate_Offline == [isOnline |-> FALSE]

\* line 76: { isOnline: true }
OnlineUpdate == [isOnline |-> TRUE]

\* line 75: { email: authUser.email }
AuthUserQuery(authUser, u) == u.email = authUser.email

\* Model.findOneAndUpdate(query, update): the collection after the fields
\* of update are set in the first document among those that match the query
FindOneAndUpdate(st, matching, update) ==
    IF \E i \in DOMAIN st : st[i] \in matching
    THEN LET k == CHOOSE i \in DOMAIN st :
                      st[i] \in matching
                          /\ \A j \in 1..(i - 1) : st[j] \notin matching
         IN  [st EXCEPT ![k] = update @@ st[k]]
    ELSE st

\* lines 70-81; findOneAndUpdate resolves to the document as it was found
GetAuthUser ==
    /\ alive
    /\ ctx.status = "built"
    /\ LET authUser == ctx.context.authUser
       IN  IF authUser = Undefined
           THEN /\ resp' = [op |-> "getAuthUser", args |-> <<>>,
                            authUser |-> authUser, queried |-> FALSE,
                            result |-> NullDoc]
                /\ UNCHANGED store
           ELSE LET matching == {u \in Range(store) : AuthUserQuery(authUser, u)}
                IN  /\ store' = FindOneAndUpdate(store, matching, OnlineUpdate)
                    /\ resp' = [op |-> "getAuthUser", args |-> <<>>,
                                authUser |-> authUser, queried |-> TRUE,
                                result |-> FindOne(store, matching)]
    /\ ctx' = NoCtx
    /\ UNCHANGED <<slots, now, alive>>

---------------------------------------------------------------------------
(* Query.getUser *)

\* GetUserError without the check of lines 92-94
GetUserError_NoBothCheck(username, id) ==
    IF Falsy(username) /\ Falsy(id)
    THEN "username or id is required params."
    ELSE Ok

\* lines 88-94: the message of the Error thrown on the arguments
GetUserError(username, id) ==
    IF Falsy(username) /\ Falsy(id)
    THEN "username or id is required params."
    ELSE IF ~Falsy(username) /\ ~Falsy(id)
    THEN "please pass only username or only id as a param"
    ELSE Ok

\* line 96: username ? { username: username } : { _id: id }
GetUserQuery(username, id, u) ==
    IF ~Falsy(username) THEN u.username = username ELSE u.id = id

\* lines 87-113
GetUser(username, id) ==
    /\ alive
    /\ ctx.status = "built"
    /\ LET error == GetUserError(username, id)
           user  == FindOne(store,
                        {u \in Range(store) : GetUserQuery(username, id, u)})
           out   == [op |-> "getUser",
                     args |-> [username |-> username, id |-> id],
                     authUser |-> ctx.context.authUser]
       IN  resp' =
             IF error # Ok
             THEN out @@ [queried |-> FALSE, result |-> [err |-> error]]
             ELSE IF user = NullDoc
             THEN out @@ [queried |-> TRUE,
                    result |-> [err |-> "User with given params doesn't exists."]]
             ELSE out @@ [queried |-> TRUE, result |-> user]
    /\ ctx' = NoCtx
    /\ UNCHANGED <<store, slots, now, alive>>

---------------------------------------------------------------------------
(* Query.searchUsers *)

SEARCH_LIMIT == 50

\* the patterns new RegExp is modelled for: literal word characters and
\* spaces, and the metacharacter .
RegExpModelled(pattern) ==
    \A i \in DOMAIN pattern : pattern[i] \in WordChar \cup {" ", "."}

\* new RegExp(pattern, 'i').test(text): the pattern matches at some position
RegExpTestI(pattern, text) ==
    \E k \in 0..(Len(text) - Len(pattern)) :
        \A j \in DOMAIN pattern :
            IF pattern[j] = "."
            THEN text[k + j] \notin LineTerminator
            ELSE ToLowerChar(pattern[j]) = ToLowerChar(text[k + j])

\* lines 126-133: the filter of the query
SearchQuery(searchQuery, authUser, u) ==
    /\ RegExpTestI(searchQuery, u.username) \/ RegExpTestI(searchQuery, u.fullName)
    /\ u.id # authUser.id

\* Model.find(query): the documents that match, in natural order
Find(st, matching) == SelectSeq(st, LAMBDA u : u \in matching)

\* Query.limit(n)
Limit(docs, n) == IF Len(docs) <= n THEN docs ELSE SubSeq(docs, 1, n)

\* lines 120-137; reading authUser.id of an absent authUser throws
SearchUsers(searchQuery) ==
    /\ alive
    /\ ctx.status = "built"
    /\ RegExpModelled(searchQuery)
    /\ LET authUser == ctx.context.authUser
           out == [op |-> "searchUsers", args |-> [searchQuery |-> searchQuery],
                   authUser |-> authUser]
       IN  resp' =
             IF Falsy(searchQuery)
             THEN out @@ [queried |-> FALSE, result |-> [users |-> <<>>]]
             ELSE IF authUser = Undefined
             THEN out @@ [queried |-> FALSE, result |->
                    [err |-> "TypeError: Cannot read property 'id' of undefined"]]
             ELSE out @@ [queried |-> TRUE, result |->
                    [users |-> Limit(
                         Find(store, {u \in Range(store) : SearchQuery(searchQuery, authUser, u)}),
                         SEARCH_LIMIT)]]
    /\ ctx' = NoCtx
    /\ UNCHANGED <<store, slots, now, alive>>

---------------------------------------------------------------------------
(* Mutation.signin *)

\* .or([{ email: emailOrUsername }, { username: emailOrUsername }])
SigninQuery(emailOrUsername, u) ==
    u.email = emailOrUsername \/ u.username = emailOrUsername

\* lines 169-187; SignInInput.password is nullable (schema/user.js:35), and
\* bcrypt.compare rejects for a password that is not a string
Signin(emailOrUsername, password) ==
    /\ alive
    /\ ctx.status = "built"
    /\ LET user == FindOne(store,
                       {u \in Range(store) : SigninQuery(emailOrUsername, u)})
           out  == [op |-> "signin",
                    args |-> [emailOrUsername |-> emailOrUsername,
                              password |-> password],
                    authUser |-> ctx.context.authUser, queried |-> TRUE]
       IN  resp' =
             IF user = NullDoc
             THEN out @@ [result |-> [err |-> "User not found."]]
             ELSE IF BcryptIllegalArguments(password)
             THEN out @@ [result |-> [err |-> "Illegal arguments: object, string"]]
             ELSE IF ~BcryptCompare(password, user.password)
             THEN out @@ [result |-> [err |-> "Invalid password."]]
             ELSE out @@ [result |-> [token |->
                      generateToken(user, SECRET, AUTH_TOKEN_EXPIRY, now)]]
    /\ ctx' = NoCtx
    /\ UNCHANGED <<store, slots, now, alive>>

\* time passes
Tick ==
    /\ alive
    /\ now < MaxTime
    /\ now' = now + 1
    /\ UNCHANGED <<store, slots, ctx, resp, alive>>

---------------------------------------------------------------------------
(* Inputs *)

Str_Alan   == <<"A","l","a","n">>
Str_Al     == <<"A","l">>
Str_e1     == <<"a","@","b",".","i","o">>
Str_e1up   == <<"A","@","b",".","i","o">>
Str_e2     == <<"c","@","b",".","i","o">>
Str_eip    == <<"a","@","[","1",".","2",".","3",".","4","]">>
Str_enotld == <<"a","@","b">>
Str_edots  == <<"a",".",".","b","@","c",".","i","o">>
Str_alan   == <<"a","l","a","n">>
Str_carl   == <<"c","a","r","l">>
Str_a_b1   == <<"a",".","b","_","1">>
Str_al     == <<"a","l">>
Str_adotdot == <<"a",".",".","b">>
Str_post   == <<"p","o","s","t">>
Str_forgot == <<"f","o","r","g","o","t","-","p","a","s","s","w","o","r","d">>
Str_pw6    == <<"1","2","3","4","5","6">>
Str_pw5    == <<"1","2","3","4","5">>

SignupInputs(fullNames, emails, usernames, passwords) ==
    [fullName : fullNames, email : emails, username : usernames,
     password : passwords]

\* the inputs of the concurrent signups: two emails and two usernames
RaceInputs ==
    SignupInputs({Str_Alan}, {Str_e1, Str_e2}, {Str_alan, Str_carl},
                 {Str_pw6, Str_pw5})

\* the inputs of the validation: every rule kept and broken, alone and
\* together with the others
RuleInputs ==
    SignupInputs(
        {<<>>, Str_Al, Str_Alan, Rep("x", 40), Rep("x", 41)},
        {<<>>, Str_e1, Str_e1up, Str_eip, Str_enotld, Str_edots},
        {<<>>, Str_al, Str_alan, Str_a_b1, Str_adotdot, Str_post, Str_forgot,
         Rep("u", 21), Rep("u", 31)},
        {<<>>, Str_pw5, Str_pw6})

Init ==
    /\ store = <<>>
    /\ slots = [r \in Slots |-> IdleSlot]
    /\ ctx = NoCtx
    /\ resp = NoResp
    /\ now = 0
    /\ alive = TRUE

NextSignup ==
    \E r \in Slots :
        \/ \E input \in RaceInputs : SignupStart(r, input)
        \/ SignupCheck(r)
        \/ SignupSave(r)
        \/ SignupRespond(r)

SpecSignup == Init /\ [][NextSignup]_vars

NextRules ==
    \/ \E input \in RuleInputs : SignupStart(1, input)
    \/ SignupCheck(1)
    \/ SignupSave(1)
    \/ SignupRespond(1)

SpecRules == Init /\ [][NextRules]_vars

Str_Carl == <<"C","a","r","l">>
Str_zed  == <<"z","e","d">>
Str_id1  == <<"1">>
Str_id2  == <<"2">>
Str_id9  == <<"9">>

\* the signups that fill the collection under the API
ApiSignupInputs ==
    { [fullName |-> Str_Alan, email |-> Str_e1, username |-> Str_alan,
       password |-> Str_pw6],
      [fullName |-> Str_Carl, email |-> Str_e2, username |-> Str_carl,
       password |-> Str_pw6] }

\* the tokens the server has minted by now: for a stored user, one year
\* from some moment up to now
MintedTokens ==
    {generateToken(store[i], SECRET, AUTH_TOKEN_EXPIRY, t) :
         i \in DOMAIN store, t \in 0..now}

\* a token signed with another key, and minted tokens with their payload
\* changed after signing
ForgedTokens ==
    {generateToken([id |-> Str_id1, email |-> Str_e1], "attacker's key",
                   MaxTime + 1, 0)}
        \cup {[tok EXCEPT !.payload.id = Str_id9] : tok \in MintedTokens}

\* the authorization headers of a request: the sentinel, no header at all,
\* a string that is no token, and tokens
Headers ==
    {HeaderNull, Undefined, StrHeader(<<"x">>)} \cup MintedTokens \cup ForgedTokens

\* the connection of a request: none over HTTP, a connection with its
\* context on the subscription transport
Connections ==
    {Undefined, [context |-> Context(Undefined)],
     [context |-> Context([id |-> Str_id1, email |-> Str_e1, exp |-> 1])]}

GetUserUsernames == {Null, <<>>, Str_alan, Str_zed}
GetUserIds       == {Null, <<>>, Str_id1, Str_id2, Str_id9}

SearchQueries ==
    {<<>>, <<"a","l">>, <<"A","L">>, <<"c","a","r","l">>, <<".">>, <<"z">>}

SigninNames     == {Str_e1, Str_alan, Str_carl, Str_zed}
SigninPasswords == {Null, Str_pw6, Str_pw5}

NextApi ==
    \/ \E input \in ApiSignupInputs : SignupStart(1, input)
    \/ SignupCheck(1)
    \/ SignupSave(1)
    \/ SignupRespond(1)
    \/ \E header \in Headers, connection \in Connections :
           BuildContext(header, connection)
    \/ GetAuthUser
    \/ \E username \in GetUserUsernames, id \in GetUserIds : GetUser(username, id)
    \/ \E searchQuery \in SearchQueries : SearchUsers(searchQuery)
    \/ \E emailOrUsername \in SigninNames, password \in SigninPasswords :
           Signin(emailOrUsername, password)
    \/ Tick

SpecApi == Init /\ [][NextApi]_vars

---------------------------------------------------------------------------
(* The rules of signup, as the specification states them *)

Rules == 1..8

\* the reserved front-end routes
ReservedUsernames ==
    { <<"f","o","r","g","o","t","-","p","a","s","s","w","o","r","d">>,
      <<"r","e","s","e","t","-","p","a","s","s","w","o","r","d">>,
      <<"e","x","p","l","o","r","e">>,
      <<"p","e","o","p","l","e">>,
      <<"n","o","t","i","f","i","c","a","t","i","o","n","s">>,
      <<"p","o","s","t">> }

\* the signup rule k is violated by this input against this collection
Violates(k, st, input) ==
    CASE k = 1 -> \E i \in DOMAIN st :
                      st[i].email = input.email \/ st[i].username = input.username
      [] k = 2 -> \/ input.fullName = <<>> \/ input.email = <<>>
                  \/ input.username = <<>> \/ input.password = <<>>
      [] k = 3 -> ~(Len(input.fullName) >= 4 /\ Len(input.fullName) <= 40)
      [] k = 4 -> ~EmailRegexTest(ToLowerCase(input.email))
      [] k = 5 -> ~UsernameRegexTest(input.username)
      [] k = 6 -> ~(Len(input.username) >= 3 /\ Len(input.username) <= 20)
      [] k = 7 -> input.username \in ReservedUsernames
      [] k = 8 -> ~(Len(input.password) >= 6)

Violated(st, input) == {k \in Rules : Violates(k, st, input)}

FirstViolated(st, input) ==
    CHOOSE k \in Violated(st, input) : \A j \in Violated(st, input) : k <= j

\* the rule an error message reports
RuleOfError(msg) ==
    CASE msg \in {"User with given email already exists.",
                  "User with given username already exists."} -> 1
      [] msg = "All fields are required." -> 2
      [] msg \in {"Full name no more than 40 characters.",
                  "Full name min 4 characters."} -> 3
      [] msg = "Enter a valid email address." -> 4
      [] msg = "Usernames can only use letters, numbers, underscores and periods." -> 5
      [] msg \in {"Username no more than 50 characters.",
                  "Username min 3 characters."} -> 6
      [] msg = "This username isn't available. Please try another." -> 7
      [] msg = "Password min 6 characters." -> 8
      [] OTHER -> 0

AlreadyExists ==
    {"User with given email already exists.",
     "User with given username already exists."}

IsError(result)  == DOMAIN result = {"err"}
IsToken(result)  == DOMAIN result = {"token"}

\* the step of request r in which the lookup and the validation run
CheckStep(r) == slots[r].pc = "lookup" /\ slots'[r].pc # "lookup"

\* the step of request r in which save() settles
SaveStep(r) == slots[r].pc = "save" /\ slots'[r].pc # "save"

---------------------------------------------------------------------------
(* Claims about signup *)

\* C1: in every reachable state, whatever the interleaving of the lookups
\* and the creates of concurrent signups, no two stored users share an email
\* and no two stored users share a username.
C1_UniqueEmailAndUsername ==
    \A i, j \in DOMAIN store :
        i # j => /\ store[i].email # store[j].email
                 /\ store[i].username # store[j].username

\* two signups passed the lookup at the same time, one was created and the
\* create of the other was rejected
C1_Witness ==
    /\ Len(store) >= 1
    /\ \E r \in Slots : slots[r].pc = "done" /\ slots[r].result = [err |-> E11000]

\* C2: a signup that passed its own lookup and whose create is rejected by
\* the unique constraint of the store fails with the AlreadyExists error of
\* a sequential duplicate signup.
C2_RejectedCreateIsAlreadyExists ==
    [][\A r \in Slots :
          SaveStep(r) /\ DuplicateKey(store, NewUser(slots[r].input))
              => /\ IsError(slots'[r].result)
                 /\ slots'[r].result.err \in AlreadyExists]_vars

\* C3: signup checks the rules in the order uniqueness, completeness, full
\* name length, email format, username pattern, username length, reserved
\* words, password length, and fails with the error of the first rule in
\* that order that the input violates; with no rule violated it goes on to
\* create the user.
C3_FirstViolatedRuleIsReported ==
    [][\A r \in Slots :
          CheckStep(r) =>
              LET input == slots[r].input
              IN  IF Violated(store, input) = {}
                  THEN slots'[r].pc = "save"
                  ELSE /\ slots'[r].pc = "done"
                       /\ IsError(slots'[r].result)
                       /\ RuleOfError(slots'[r].result.err)
                              = FirstViolated(store, input)]_vars

\* a signup has failed on an input that violates uniqueness and two more
\* rules, and it reports uniqueness
C3_Witness ==
    /\ slots[1].pc = "done"
    /\ IsError(slots[1].result)
    /\ Cardinality(Violated(store, slots[1].input)) >= 3
    /\ 1 \in Violated(store, slots[1].input)
    /\ RuleOfError(slots[1].result.err) = 1

\* C4: a signup whose input violates exactly one rule fails with the error
\* of that rule and writes nothing: the collection after the failed signup
\* is the collection before it, and the request is over.
C4_SingleViolationFailsWithoutWrite ==
    [][\A r \in Slots :
          CheckStep(r) /\ Cardinality(Violated(store, slots[r].input)) = 1
              => /\ slots'[r].pc = "done"
                 /\ IsError(slots'[r].result)
                 /\ {RuleOfError(slots'[r].result.err)}
                        = Violated(store, slots[r].input)
                 /\ store' = store]_vars

\* a signup has failed on an input whose only violation is a reserved
\* username
C4_Witness ==
    /\ slots[1].pc = "done"
    /\ IsError(slots[1].result)
    /\ Violated(store, slots[1].input) = {7}
    /\ RuleOfError(slots[1].result.err) = 7

\* C5: a signup whose input satisfies every rule goes on to create the
\* user, and when no stored user has its email or username at the create,
\* it adds exactly one user with the fields of the input (the password
\* hashed) and returns a token that verify decodes to the identity of that
\* user, expiring one year later.
C5_ValidSignupCreatesAndMints ==
    [][\A r \in Slots :
          LET input == slots[r].input
          IN  /\ CheckStep(r) /\ Violated(store, input) = {}
                  => slots'[r].pc = "save"
              /\ SaveStep(r) /\ ~Violates(1, store, input)
                  => /\ Len(store') = Len(store) + 1
                     /\ SubSeq(store', 1, Len(store)) = store
                     /\ LET u == store'[Len(store')]
                            t == slots'[r].result
                        IN  /\ u.fullName = input.fullName
                            /\ u.email = input.email
                            /\ u.username = input.username
                            /\ u.password # input.password
                            /\ BcryptCompare(input.password, u.password)
                            /\ \A i \in DOMAIN store : store[i].id # u.id
                            /\ slots'[r].pc = "done"
                            /\ IsToken(t)
                            /\ JwtVerifies(t.token, SECRET, now')
                            /\ t.token.payload.id = u.id
                            /\ t.token.payload.email = u.email
                            /\ t.token.payload.exp = now' + 1]_vars

\* a signup has succeeded while another signup was in flight, and the user
\* its token names is in the collection with the fields of its input
C5_Witness ==
    \E r, q \in Slots :
        /\ r # q
        /\ slots[q].pc \in {"lookup", "save"}
        /\ slots[r].pc = "done"
        /\ IsToken(slots[r].result)
        /\ \E i \in DOMAIN store :
               /\ store[i].id = slots[r].result.token.payload.id
               /\ store[i].username = slots[r].input.username
               /\ store[i].email = slots[r].input.email

---------------------------------------------------------------------------
(* Claims about the context and the other resolvers *)

\* the step in which the context function runs for a request
BuildStep == ctx' # ctx /\ ctx'.status # "none"

\* the step in which the resolver op runs
ResolveStep(op) == resp'.op = op /\ ctx.status = "built" /\ ctx' = NoCtx

Unauthenticated == {"Couldn't authenticate user"}

\* C6: for a request that is not on a persistent connection and carries an
\* authorization header, the context has an absent authUser when the
\* credential is the sentinel, has the decoded claims as authUser when the
\* credential verifies, and the request fails with Unauthenticated, with no
\* context, when the credential does not verify.
C6_ContextFollowsCredential ==
    [][BuildStep /\ ~ctx'.persistent /\ ctx'.header # Undefined =>
          IF ctx'.header = HeaderNull
          THEN /\ ctx'.status = "built"
               /\ ctx'.context.authUser = Undefined
          ELSE IF JwtVerifies(ctx'.header, SECRET, now)
          THEN /\ ctx'.status = "built"
               /\ ctx'.context.authUser = ctx'.header.payload
          ELSE /\ ctx'.status = "rejected"
               /\ ctx'.error \in Unauthenticated]_vars

NotFound == {"User not found.", "User with given params doesn't exists."}

InvalidCredentials == {"Invalid password."}

\* C7: signin fails with NotFound when no stored user has the email or
\* username given; otherwise with InvalidCredentials when the password does
\* not match the stored hash of that user; otherwise it returns a token
\* minted for that user that expires in one year; and it never changes the
\* collection.
C7_SigninOutcome ==
    [][ResolveStep("signin") =>
          LET name     == resp'.args.emailOrUsername
              password == resp'.args.password
              found    == {i \in DOMAIN store :
                              store[i].email = name \/ store[i].username = name}
              result   == resp'.result
          IN  /\ store' = store
              /\ IF found = {}
                 THEN IsError(result) /\ result.err \in NotFound
                 ELSE LET u == store[CHOOSE i \in found : \A j \in found : i <= j]
                      IN  IF password = Null \/ u.password # Hash(password)
                          THEN IsError(result) /\ result.err \in InvalidCredentials
                          ELSE /\ IsToken(result)
                               /\ JwtVerifies(result.token, SECRET, now)
                               /\ result.token.payload.id = u.id
                               /\ result.token.payload.exp = now + 1]_vars

InvalidArgument ==
    {"username or id is required params.",
     "please pass only username or only id as a param"}

\* what getUser is to answer when it looks up by this field
GetUserLookup(field, value, result) ==
    LET found == {i \in DOMAIN store : store[i][field] = value}
    IN  IF found = {}
        THEN IsError(result) /\ result.err \in NotFound
        ELSE \E i \in found : result = store[i]

\* C8 as stated, "supplied" meaning present (not null): getUser fails with
\* InvalidArgument, without querying the store, when both username and id
\* are supplied and when neither is; with exactly one supplied it returns
\* the stored user matching that field, or fails with NotFound.
C8_GetUserSuppliedMeansPresent ==
    [][ResolveStep("getUser") =>
          LET username == resp'.args.username
              id       == resp'.args.id
              result   == resp'.result
          IN  IF (username # Null) = (id # Null)
              THEN /\ IsError(result) /\ result.err \in InvalidArgument
                   /\ ~resp'.queried
              ELSE IF username # Null
              THEN GetUserLookup("username", username, result)
              ELSE GetUserLookup("id", id, result)]_vars

\* C8 amended, "supplied" meaning present and not the empty string: getUser
\* fails with InvalidArgument, without querying the store, when both
\* username and id are non-empty and when neither is; with exactly one
\* non-empty it returns the stored user matching that field, or fails with
\* NotFound; it never changes the collection.
C8_GetUserSuppliedMeansNonEmpty ==
    [][ResolveStep("getUser") =>
          LET username == resp'.args.username
              id       == resp'.args.id
              result   == resp'.result
              given(x) == x # Null /\ x # <<>>
          IN  /\ store' = store
              /\ IF given(username) = given(id)
                 THEN /\ IsError(result) /\ result.err \in InvalidArgument
                      /\ ~resp'.queried
                 ELSE IF given(username)
                 THEN GetUserLookup("username", username, result)
                 ELSE GetUserLookup("id", id, result)]_vars

\* getUser was called with an empty username and the id of a stored user,
\* and returned that user
C8_Witness ==
    /\ resp.op = "getUser"
    /\ resp.args.username = <<>>
    /\ resp.args.id = Str_id1
    /\ resp.queried
    /\ \E i \in DOMAIN store : resp.result = store[i] /\ store[i].id = Str_id1

\* text contains part, case-insensitively
ContainsI(text, part) ==
    \E k \in 0..(Len(text) - Len(part)) :
        \A j \in DOMAIN part : ToLowerChar(text[k + j]) = ToLowerChar(part[j])

\* C9: for an authenticated caller and a non-empty searchQuery, the result
\* of searchUsers never contains the caller, has at most 50 users, and the
\* username or the full name of every user in it contains searchQuery
\* case-insensitively; for an empty searchQuery the result is empty.
C9_SearchResult ==
    resp.op = "searchUsers" /\ resp.authUser # Undefined =>
        LET q == resp.args.searchQuery
        IN  /\ DOMAIN resp.result = {"users"}
            /\ IF q = <<>>
               THEN resp.result.users = <<>>
               ELSE /\ Len(resp.result.users) <= 50
                    /\ \A i \in DOMAIN resp.result.users :
                           LET u == resp.result.users[i]
                           IN  /\ u.id # resp.authUser.id
                               /\ \/ ContainsI(u.username, q)
                                  \/ ContainsI(u.fullName, q)

=============================================================================
